---- MODULE Spec2Model ----
(***************************************************************************)
(* State-machine model of sergiecode/music-classification-api:             *)
(*   - examples/mock_inference.py : the command-line Inference Adapter     *)
(*   - examples/test_api.py       : the HTTP Conformance Harness           *)
(*                                                                         *)
(* Conventions.                                                            *)
(*   A Python "str or None" value is a record [given, path]; given = FALSE *)
(*   is None.  A path is the sequence of its components, <<>> being both   *)
(*   the empty string and the current directory (pathlib: Path("") is ".").*)
(*   Real numbers are fixed-point integers: confidences and seconds in     *)
(*   thousandths, bpm in hundredths.                                       *)
(***************************************************************************)
EXTENDS Integers, Sequences, FiniteSets, TLC

VARIABLES
    \* ---- Adapter (mock_inference.py) ----
    fs,         \* the filesystem: path -> "absent" | "file" | "dir"
    argv,       \* the command line of the running invocation
    args,       \* the parsed namespace (argparse)
    pc,         \* position of the Adapter process inside main()
    exc,        \* the exception travelling to the except clause
    result,     \* the value returned by mock_analyze_audio, <<>> before
    stdout,     \* what the process wrote to standard output
    stderr,     \* what the process wrote to standard error
    exitCode,   \* the process exit code, -1 while running
    fsAtLaunch, \* the filesystem as it was when the invocation started
    \* ---- Harness (test_api.py) ----
    hpc,        \* position of the Harness inside main()
    idx,        \* index of the next entry of tests to run
    results,    \* the accumulated (test_name, result) list
    requests,   \* the HTTP requests sent so far, each with what came back
    scratch,    \* the files present under temp/
    tempDir,    \* whether the directory temp/ exists
    report      \* what the summary printed

adapterVars == <<fs, argv, args, pc, exc, result, stdout, stderr, exitCode, fsAtLaunch>>
harnessVars == <<hpc, idx, results, requests, scratch, tempDir, report>>
vars == <<adapterVars, harnessVars>>

(***************************************************************************)
(*                     Python values and the filesystem                    *)
(***************************************************************************)
None == [given |-> FALSE, path |-> <<>>]
Str(p) == [given |-> TRUE, path |-> p]

\* Python truthiness of a "str or None": None and "" are false.
Truthy(a) == a.given /\ a.path # <<>>

\* The paths the model's filesystem holds besides the current directory.
Nodes == { <<"a">>, <<"a", "m">>, <<"d">>, <<"d", "e">>, <<"d", "e", "m">> }

\* pathlib's Path.parent; the parent of "." is ".".
Parent(p) == IF p = <<>> THEN <<>> ELSE SubSeq(p, 1, Len(p) - 1)

\* Path resolution as the kernel does it: "dir", "file", "absent" (ENOENT)
\* or "enotdir" (a proper ancestor is not a directory).
RECURSIVE Stat(_, _)
Stat(f, p) ==
    IF p = <<>> THEN "dir"
    ELSE LET up == Stat(f, Parent(p)) IN
         IF up = "dir" THEN (IF p \in DOMAIN f THEN f[p] ELSE "absent")
         ELSE IF up = "absent" THEN "absent"
         ELSE "enotdir"

\* Path.exists(): ENOENT and ENOTDIR are both answered False.
Exists(f, p) == Stat(f, p) \in {"dir", "file"}
IsDir(f, p) == Stat(f, p) = "dir"

\* A filesystem is well formed when every present node lies in a directory.
WellFormed(f) == \A p \in Nodes : f[p] # "absent" => Stat(f, Parent(p)) = "dir"
FileSystems == { f \in [Nodes -> {"absent", "file", "dir"}] : WellFormed(f) }

NoError == [type |-> "", msg |-> ""]
Raise(t, m) == [type |-> t, msg |-> m]

\* os.mkdir(p): one directory, no parents.
OsMkdir(f, p) ==
    LET st == Stat(f, p) IN
    IF st \in {"dir", "file"} THEN [fs |-> f, err |-> Raise("FileExistsError", "File exists")]
    ELSE IF st = "enotdir" THEN [fs |-> f, err |-> Raise("NotADirectoryError", "Not a directory")]
    ELSE IF Stat(f, Parent(p)) # "dir"
         THEN [fs |-> f, err |-> Raise("FileNotFoundError", "No such file or directory")]
    ELSE [fs |-> [f EXCEPT ![p] = "dir"], err |-> NoError]

\* Path.mkdir(parents=True, exist_ok=True).
RECURSIVE PathMkdir(_, _)
PathMkdir(f, p) ==
    LET r == OsMkdir(f, p) IN
    IF r.err = NoError THEN r
    ELSE IF r.err.type = "FileNotFoundError"
         THEN IF Parent(p) = p THEN r
              ELSE LET q == PathMkdir(f, Parent(p)) IN
                   IF q.err # NoError THEN q
                   ELSE LET s == OsMkdir(q.fs, p) IN
                        IF s.err = NoError \/ IsDir(q.fs, p)
                        THEN [fs |-> s.fs, err |-> NoError]
                        ELSE s
    ELSE IF IsDir(f, p) THEN [fs |-> f, err |-> NoError]
    ELSE r

\* Path.touch(): creates an empty file, or leaves an existing node alone.
PathTouch(f, p) ==
    LET st == Stat(f, p) IN
    IF st \in {"dir", "file"} THEN [fs |-> f, err |-> NoError]
    ELSE IF st = "enotdir" THEN [fs |-> f, err |-> Raise("NotADirectoryError", "Not a directory")]
    ELSE IF Stat(f, Parent(p)) # "dir"
         THEN [fs |-> f, err |-> Raise("FileNotFoundError", "No such file or directory")]
    ELSE [fs |-> [f EXCEPT ![p] = "file"], err |-> NoError]

(***************************************************************************)
(*                 mock_inference.py : the analysis stand-in               *)
(***************************************************************************)
genres == << "rock", "pop", "jazz", "classical", "electronic", "hip_hop", "country", "blues" >>
moods == << "happy", "sad", "energetic", "calm", "aggressive" >>
keys == << "C", "C#", "D", "D#", "E", "F", "F#", "G", "G#", "A", "A#", "B" >>

\* random.choice(seq): any element of the sequence.
Choice(seq) == { seq[i] : i \in 1..Len(seq) }

\* random.uniform(lo, hi) returns lo + (hi - lo) * random(): a value of
\* [lo, hi], either end included.  Sampled at both ends and in the middle.
Uniform(lo, hi) == { lo, (lo + hi) \div 2, hi }

\* Variant: the bpm is stored as drawn, without rounding.
Round1_NoRounding(h) == h

\* round(x, 1) on hundredths: the nearest tenth, ties to the even tenth.
Round1(h) ==
    LET q == h \div 10
        r == h % 10
    IN  IF r < 5 THEN q * 10
        ELSE IF r > 5 THEN (q + 1) * 10
        ELSE IF q % 2 = 0 THEN q * 10 ELSE (q + 1) * 10

\* random.uniform(60, 180) in hundredths: the ends, values just off a tenth
\* on either side, exact ties (x.25 and x.75 are exact in binary), and
\* values just below the upper end.
BpmDraws == { 6000, 6004, 6025, 6075, 6096, 11999, 12344, 17975, 17996, 18000 }

\* The random draws of one call of mock_analyze_audio, in program order
\* (the draw that only feeds time.sleep changes no state and is left out).
FirstDraw ==
    [ genre |-> genres[1], mood |-> moods[1], bpm |-> 6000, key |-> keys[1],
      genre_conf |-> 600, mood_conf |-> 600, bpm_conf |-> 700, key_conf |-> 500,
      processing_time |-> 1000, audio_duration |-> 30000 ]
LastDraw ==
    [ genre |-> genres[Len(genres)], mood |-> moods[Len(moods)], bpm |-> 18000,
      key |-> keys[Len(keys)],
      genre_conf |-> 950, mood_conf |-> 950, bpm_conf |-> 950, key_conf |-> 900,
      processing_time |-> 3000, audio_duration |-> 300000 ]
Vary(base, field, values) == { [base EXCEPT ![field] = v] : v \in values }

\* The draws explored: every value of every single draw, the other draws
\* held at their first or at their last value (the draws are independent
\* calls of the generator and feed separate fields of the response).
DrawsAround(base) ==
    Vary(base, "genre", Choice(genres)) \cup Vary(base, "mood", Choice(moods))
    \cup Vary(base, "bpm", BpmDraws) \cup Vary(base, "key", Choice(keys))
    \cup Vary(base, "genre_conf", Uniform(600, 950))
    \cup Vary(base, "mood_conf", Uniform(600, 950))
    \cup Vary(base, "bpm_conf", Uniform(700, 950))
    \cup Vary(base, "key_conf", Uniform(500, 900))
    \cup Vary(base, "processing_time", Uniform(1000, 3000))
    \cup Vary(base, "audio_duration", Uniform(30000, 300000))
Draws == DrawsAround(FirstDraw) \cup DrawsAround(LastDraw)

\* A Python dict is a record that also carries its insertion order in "keys".
mock_analyze_audio(audio_file_path, model_path, d) ==
    [ keys |-> << "predictions", "metadata" >>,
      predictions |->
        [ keys |-> << "genre", "mood", "bpm", "key" >>,
          genre |-> [ label |-> d.genre, confidence |-> d.genre_conf ],
          mood  |-> [ label |-> d.mood, confidence |-> d.mood_conf ],
          bpm   |-> [ value |-> Round1(d.bpm), confidence |-> d.bpm_conf ],
          key   |-> [ label |-> d.key, confidence |-> d.key_conf ] ],
      metadata |->
        [ keys |-> << "model_version", "processing_time_seconds", "audio_duration_seconds" >>,
          model_version |-> "1.0.0",
          processing_time_seconds |-> d.processing_time,
          audio_duration_seconds |-> d.audio_duration ] ]

(***************************************************************************)
(*                     mock_inference.py : main()                          *)
(***************************************************************************)
\* A command line: which options it carries and their values.  The order
\* of the options on the line is not part of it.
NoFormat == [given |-> FALSE, value |-> ""]
Format(v) == [given |-> TRUE, value |-> v]
CommandLines ==
    [ help : BOOLEAN,
      audio_file : { None, Str(<<>>), Str(<<"a">>) },
      features_file : { None, Str(<<>>), Str(<<"f">>) },
      spectrogram_file : { None, Str(<<"s">>) },
      model_path : { None, Str(<<>>), Str(<<"a", "m">>), Str(<<"d", "e", "m">>) },
      output_format : { NoFormat, Format("json"), Format("xml") } ]

\* add_argument("--output-format", default="json", choices=["json"])
choices == { "json" }
OutputFormat(av) == IF av.output_format.given THEN av.output_format.value ELSE "json"

\* Variant: the parser does not restrict the output format.
InvalidChoice_Unchecked(av) == FALSE

\* parser.parse_args() reports an error (usage on stderr, exit status 2) for
\* a value outside choices, as soon as it meets it, and for a missing
\* required --model-path once the whole line is read.
InvalidChoice(av) == OutputFormat(av) \notin choices
MissingRequired(av) == ~av.model_path.given

\* The namespace parse_args() returns for an accepted command line.
Namespace(av) ==
    [ audio_file |-> av.audio_file,
      features_file |-> av.features_file,
      spectrogram_file |-> av.spectrogram_file,
      model_path |-> av.model_path,
      output_format |-> OutputFormat(av) ]
NoArgs ==
    [ audio_file |-> None, features_file |-> None, spectrogram_file |-> None,
      model_path |-> None, output_format |-> "" ]
NoArgv ==
    [ help |-> FALSE, audio_file |-> None, features_file |-> None,
      spectrogram_file |-> None, model_path |-> None, output_format |-> NoFormat ]

\* Variant: one of the two preprocessed files is taken for a complete pair.
ValidateInputs_EitherPreprocessed(a, f) ==
    IF ~Truthy(a.audio_file) /\ ~(Truthy(a.features_file) \/ Truthy(a.spectrogram_file))
    THEN Raise("ValueError",
               "Either --audio-file or both --features-file and --spectrogram-file must be provided")
    ELSE IF Truthy(a.audio_file) /\ ~Exists(f, a.audio_file.path)
    THEN Raise("FileNotFoundError", "Audio file not found")
    ELSE NoError

\* Variant: a complete preprocessed pair makes up for a missing audio file.
ValidateInputs_PairRescuesAudio(a, f) ==
    IF ~Truthy(a.audio_file) /\ ~(Truthy(a.features_file) /\ Truthy(a.spectrogram_file))
    THEN Raise("ValueError",
               "Either --audio-file or both --features-file and --spectrogram-file must be provided")
    ELSE IF /\ Truthy(a.audio_file) /\ ~Exists(f, a.audio_file.path)
            /\ ~(Truthy(a.features_file) /\ Truthy(a.spectrogram_file))
    THEN Raise("FileNotFoundError", "Audio file not found")
    ELSE NoError

\* "# Validate inputs": the exception raised, NoError when none is.
ValidateInputs(a, f) ==
    IF ~Truthy(a.audio_file) /\ ~(Truthy(a.features_file) /\ Truthy(a.spectrogram_file))
    THEN Raise("ValueError",
               "Either --audio-file or both --features-file and --spectrogram-file must be provided")
    ELSE IF Truthy(a.audio_file) /\ ~Exists(f, a.audio_file.path)
    THEN Raise("FileNotFoundError", "Audio file not found")
    ELSE NoError

\* Variant: the directories are made but the file is never touched.
EnsureModelFile_MkdirOnly(a, f) ==
    IF ~Exists(f, a.model_path.path)
    THEN PathMkdir(f, Parent(a.model_path.path))
    ELSE [fs |-> f, err |-> NoError]

\* The dummy model file: created, with its directories, when the path is absent.
EnsureModelFile(a, f) ==
    IF ~Exists(f, a.model_path.path)
    THEN LET made == PathMkdir(f, Parent(a.model_path.path)) IN
         IF made.err # NoError THEN made
         ELSE PathTouch(made.fs, a.model_path.path)
    ELSE [fs |-> f, err |-> NoError]

\* The first argument main() passes to mock_analyze_audio.
AnalysisInput(a) == IF Truthy(a.audio_file) THEN a.audio_file ELSE a.features_file

error_response(e) == [ keys |-> << "error", "type" >>, error |-> e.msg, type |-> e.type ]

\* What print() writes: one line of JSON (json.dumps keeps the keys, their
\* order and their values), or plain text.
JsonLine(obj) == [ kind |-> "json", value |-> obj ]
TextLine(t) == [ kind |-> "text", value |-> t ]

Running == -1

AdapterInit ==
    /\ fs \in FileSystems
    /\ fsAtLaunch = fs
    /\ argv = NoArgv
    /\ args = NoArgs
    /\ pc = "idle"
    /\ exc = NoError
    /\ result = <<>>
    /\ stdout = <<>>
    /\ stderr = <<>>
    /\ exitCode = Running

\* The process is started on a command line, in the filesystem as it is.
Launch ==
    /\ pc = "idle"
    /\ \E av \in CommandLines : argv' = av
    /\ args' = NoArgs
    /\ pc' = "parse"
    /\ exc' = NoError
    /\ result' = <<>>
    /\ stdout' = <<>>
    /\ stderr' = <<>>
    /\ exitCode' = Running
    /\ fsAtLaunch' = fs
    /\ UNCHANGED <<fs, harnessVars>>

\* parse_args() meets -h: the help goes to stdout and the process exits 0.
\* (With an invalid choice on the same line, whichever comes first wins.)
ParseHelp ==
    /\ pc = "parse"
    /\ argv.help
    /\ stdout' = Append(stdout, TextLine("help"))
    /\ exitCode' = 0
    /\ pc' = "done"
    /\ UNCHANGED <<fs, argv, args, exc, result, stderr, fsAtLaunch, harnessVars>>

\* parse_args() rejects the command line: usage and the error go to stderr
\* and the process exits 2.  This happens outside the try block.
ParseError ==
    /\ pc = "parse"
    /\ InvalidChoice(argv) \/ (~argv.help /\ MissingRequired(argv))
    /\ stderr' = Append(stderr, TextLine("usage"))
    /\ exitCode' = 2
    /\ pc' = "done"
    /\ UNCHANGED <<fs, argv, args, exc, result, stdout, fsAtLaunch, harnessVars>>

ParseAccept ==
    /\ pc = "parse"
    /\ ~argv.help /\ ~InvalidChoice(argv) /\ ~MissingRequired(argv)
    /\ args' = Namespace(argv)
    /\ pc' = "validate"
    /\ UNCHANGED <<fs, argv, exc, result, stdout, stderr, exitCode, fsAtLaunch, harnessVars>>

Validate ==
    /\ pc = "validate"
    /\ exc' = ValidateInputs(args, fs)
    /\ pc' = IF exc' = NoError THEN "model" ELSE "except"
    /\ UNCHANGED <<fs, argv, args, result, stdout, stderr, exitCode, fsAtLaunch, harnessVars>>

EnsureModel ==
    /\ pc = "model"
    /\ LET made == EnsureModelFile(args, fs) IN
        /\ fs' = made.fs
        /\ exc' = made.err
        /\ pc' = IF made.err = NoError THEN "analyze" ELSE "except"
    /\ UNCHANGED <<argv, args, result, stdout, stderr, exitCode, fsAtLaunch, harnessVars>>

Analyze ==
    /\ pc = "analyze"
    /\ \E d \in Draws :
         result' = << mock_analyze_audio(AnalysisInput(args), args.model_path, d) >>
    /\ pc' = "emit"
    /\ UNCHANGED <<fs, argv, args, exc, stdout, stderr, exitCode, fsAtLaunch, harnessVars>>

\* "# Output result as JSON", then sys.exit(0).
Emit ==
    /\ pc = "emit"
    /\ stdout' = IF args.output_format = "json"
                 THEN Append(stdout, JsonLine(result[1]))
                 ELSE stdout
    /\ exitCode' = 0
    /\ pc' = "done"
    /\ UNCHANGED <<fs, argv, args, exc, result, stderr, fsAtLaunch, harnessVars>>

\* Variant: the error object is printed to stdout.
Handle_ToStdout ==
    /\ pc = "except"
    /\ stdout' = Append(stdout, JsonLine(error_response(exc)))
    /\ exitCode' = 1
    /\ pc' = "done"
    /\ UNCHANGED <<fs, argv, args, exc, result, stderr, fsAtLaunch, harnessVars>>

\* except Exception as e: the error object goes to stderr, then sys.exit(1).
Handle ==
    /\ pc = "except"
    /\ stderr' = Append(stderr, JsonLine(error_response(exc)))
    /\ exitCode' = 1
    /\ pc' = "done"
    /\ UNCHANGED <<fs, argv, args, exc, result, stdout, fsAtLaunch, harnessVars>>

\* The process is gone; what it left in the filesystem stays, and the
\* Adapter can be invoked again.
Reap ==
    /\ pc = "done"
    /\ pc' = "idle"
    /\ argv' = NoArgv
    /\ args' = NoArgs
    /\ exc' = NoError
    /\ result' = <<>>
    /\ stdout' = <<>>
    /\ stderr' = <<>>
    /\ exitCode' = Running
    /\ fsAtLaunch' = fs
    /\ UNCHANGED <<fs, harnessVars>>

AdapterNext ==
    \/ Launch \/ ParseHelp \/ ParseError \/ ParseAccept
    \/ Validate \/ EnsureModel \/ Analyze \/ Emit \/ Handle \/ Reap

(***************************************************************************)
(*                     test_api.py : the five checks                       *)
(***************************************************************************)
\* What comes back from one HTTP request: a transport failure (requests
\* raises), or a response with a status code and a body that response.json()
\* can or cannot parse.
ConnectionError == [ok |-> FALSE, status |-> 0, json |-> FALSE]
Response(st, js) == [ok |-> TRUE, status |-> st, json |-> js]
Replies == { ConnectionError } \cup { Response(st, js) : st \in {200, 201, 404, 500}, js \in BOOLEAN }

test_audio == "temp/test_audio.wav"
features_path == "temp/dummy_features.json"
spectrogram_path == "temp/dummy_spectrogram.npy"

Get(path) == [method |-> "GET", path |-> path, carries |-> "nothing"]
Post(path, carries) == [method |-> "POST", path |-> path, carries |-> carries]

\* Variant: any 2xx status counts as a pass.
AfterRequest_Any2xx(reply, sc, made) ==
    IF ~reply.ok \/ ~reply.json
    THEN [result |-> FALSE, scratch |-> sc]
    ELSE [result |-> (reply.status >= 200 /\ reply.status < 300), scratch |-> sc \ made]

\* The tail shared by every check once the request is made: requests raises
\* on a transport failure, response.json() raises on a body that is not
\* JSON, and only then come the clean-up and the comparison with 200.
\* Either exception is caught by the check's own except clause, which
\* returns False.  sc: the scratch files, made: the ones this check wrote.
AfterRequest(reply, sc, made) ==
    IF ~reply.ok \/ ~reply.json
    THEN [result |-> FALSE, scratch |-> sc]
    ELSE [result |-> (reply.status = 200), scratch |-> sc \ made]

test_health_endpoint(reply, sc) == AfterRequest(reply, sc, {})

test_info_endpoint(reply, sc) == AfterRequest(reply, sc, {})

\* os.makedirs("temp", exist_ok=True), then the WAV header is written.
create_dummy_audio_file(sc) == sc \cup { test_audio }

test_analyze_with_json(reply, sc) ==
    AfterRequest(reply, create_dummy_audio_file(sc), { test_audio })

test_upload_endpoint(reply, sc) ==
    AfterRequest(reply, create_dummy_audio_file(sc), { test_audio })

test_preprocessed_endpoint(reply, sc) ==
    AfterRequest(reply, sc \cup { features_path, spectrogram_path },
                 { features_path, spectrogram_path })

tests ==
    << [name |-> "Health Check", func |-> "test_health_endpoint"],
       [name |-> "API Info", func |-> "test_info_endpoint"],
       [name |-> "JSON Analysis", func |-> "test_analyze_with_json"],
       [name |-> "File Upload", func |-> "test_upload_endpoint"],
       [name |-> "Preprocessed Data", func |-> "test_preprocessed_endpoint"] >>

NoReport == [passed |-> 0, total |-> 0, printed |-> ""]

HarnessInit ==
    /\ hpc = "loop"
    /\ idx = 1
    /\ results = <<>>
    /\ requests = <<>>
    /\ scratch = {}
    /\ tempDir \in BOOLEAN
    /\ report = NoReport

\* Variant: the battery is abandoned at the first check that does not pass.
Turn_StopOnFailure(func, request, out, makesTemp) ==
    /\ hpc = "loop"
    /\ idx <= Len(tests)
    /\ tests[idx].func = func
    /\ requests' = Append(requests, request)
    /\ results' = Append(results, [name |-> tests[idx].name, result |-> out.result])
    /\ scratch' = out.scratch
    /\ tempDir' = (tempDir \/ makesTemp)
    /\ idx' = IF out.result THEN idx + 1 ELSE Len(tests) + 1
    /\ UNCHANGED <<hpc, report, adapterVars>>

\* One turn of "for test_name, test_func in tests": the check runs, its
\* request is answered by `reply`, and (test_name, result) is appended.
\* Every check catches each Exception itself and returns False, so the
\* except clause of main(), which would append False as well, is not entered.
Turn(func, request, out, makesTemp) ==
    /\ hpc = "loop"
    /\ idx <= Len(tests)
    /\ tests[idx].func = func
    /\ requests' = Append(requests, request)
    /\ results' = Append(results, [name |-> tests[idx].name, result |-> out.result])
    /\ scratch' = out.scratch
    /\ tempDir' = (tempDir \/ makesTemp)
    /\ idx' = idx + 1
    /\ UNCHANGED <<hpc, report, adapterVars>>

Sent(req, reply) == [request |-> req, reply |-> reply]

HealthCheck ==
    \E reply \in Replies :
        Turn("test_health_endpoint", Sent(Get("/api/health"), reply),
             test_health_endpoint(reply, scratch), FALSE)

InfoCheck ==
    \E reply \in Replies :
        Turn("test_info_endpoint", Sent(Get("/api/health/info"), reply),
             test_info_endpoint(reply, scratch), FALSE)

JsonCheck ==
    \E reply \in Replies :
        Turn("test_analyze_with_json",
             Sent(Post("/api/music/analyze", "json audioData fileName format"), reply),
             test_analyze_with_json(reply, scratch), TRUE)

UploadCheck ==
    \E reply \in Replies :
        Turn("test_upload_endpoint",
             Sent(Post("/api/music/analyze/upload", "multipart file"), reply),
             test_upload_endpoint(reply, scratch), TRUE)

PreprocessedCheck ==
    \E reply \in Replies :
        Turn("test_preprocessed_endpoint",
             Sent(Post("/api/music/analyze/preprocessed",
                       "params featuresPath spectrogramPath fileName"), reply),
             test_preprocessed_endpoint(reply, scratch), TRUE)

\* Variant: every outcome is counted as passed.
CountPassed_CountsAll(rs) == Len(rs)

\* passed = sum(1 for _, result in results if result)
RECURSIVE CountPassed(_)
CountPassed(rs) ==
    IF rs = <<>> THEN 0
    ELSE (IF Head(rs).result THEN 1 ELSE 0) + CountPassed(Tail(rs))

Verdict(passed, total) == IF passed = total THEN "All tests passed" ELSE "Some tests failed"

\* The summary printed after the loop.
Summary ==
    /\ hpc = "loop"
    /\ idx > Len(tests)
    /\ LET passed == CountPassed(results)
           total == Len(results)
       IN  report' = [passed |-> passed, total |-> total, printed |-> Verdict(passed, total)]
    /\ hpc' = "end"
    /\ UNCHANGED <<idx, results, requests, scratch, tempDir, adapterVars>>

HarnessNext ==
    \/ HealthCheck \/ InfoCheck \/ JsonCheck \/ UploadCheck \/ PreprocessedCheck
    \/ Summary

(***************************************************************************)
(*                           Specifications                                *)
(***************************************************************************)
\* The two programs are separate processes that share nothing: each is
\* checked with the other one not started.
HarnessNotStarted ==
    /\ hpc = "loop" /\ idx = 1 /\ results = <<>> /\ requests = <<>>
    /\ scratch = {} /\ tempDir = FALSE /\ report = NoReport
AdapterNotStarted ==
    /\ fs = [p \in Nodes |-> "absent"] /\ fsAtLaunch = fs
    /\ argv = NoArgv /\ args = NoArgs /\ pc = "idle" /\ exc = NoError
    /\ result = <<>> /\ stdout = <<>> /\ stderr = <<>> /\ exitCode = Running

InitAdapter == AdapterInit /\ HarnessNotStarted
InitHarness == HarnessInit /\ AdapterNotStarted

SpecAdapter == InitAdapter /\ [][AdapterNext]_vars
SpecHarness == InitHarness /\ [][HarnessNext]_vars

(***************************************************************************)
(*                    Properties of the Adapter                            *)
(***************************************************************************)
\* Read off the command line alone: the parser lets the invocation through
\* to the try block of main() (no -h, a model path, the format "json").
ParserAccepts == ~argv.help /\ argv.model_path.given /\ OutputFormat(argv) = "json"

IsAnalysisResponse(line) ==
    line.kind = "json" /\ line.value.keys = << "predictions", "metadata" >>
IsErrorResponse(line) ==
    line.kind = "json" /\ line.value.keys = << "error", "type" >>
WroteAnalysisResponse == \E i \in 1..Len(stdout) : IsAnalysisResponse(stdout[i])
WroteErrorResponse == \E i \in 1..Len(stderr) : IsErrorResponse(stderr[i])

SuccessOutcome ==
    /\ exitCode = 0
    /\ Len(stdout) = 1 /\ IsAnalysisResponse(stdout[1])
    /\ stderr = <<>>
FailureOutcome ==
    /\ exitCode = 1
    /\ Len(stderr) = 1 /\ IsErrorResponse(stderr[1])
    /\ stdout = <<>>
UsageOutcome == exitCode = 2 /\ stderr = << TextLine("usage") >> /\ stdout = <<>>
HelpOutcome == exitCode = 0 /\ stdout = << TextLine("help") >> /\ stderr = <<>>

\* The input mode as the invocation found it.
ModeA == Truthy(argv.audio_file) /\ Exists(fsAtLaunch, argv.audio_file.path)
ModeB == ~Truthy(argv.audio_file) /\ Truthy(argv.features_file) /\ Truthy(argv.spectrogram_file)
NoMode == ~Truthy(argv.audio_file) /\ ~(Truthy(argv.features_file) /\ Truthy(argv.spectrogram_file))
AudioMissing == argv.audio_file.given /\ ~Exists(fsAtLaunch, argv.audio_file.path)
ModelAbsent == argv.model_path.given /\ ~Exists(fsAtLaunch, argv.model_path.path)
ModelPresent == argv.model_path.given /\ Exists(fsAtLaunch, argv.model_path.path)
\* Every ancestor of the model path that exists is a directory.
ModelCreatable == Stat(fsAtLaunch, Parent(argv.model_path.path)) \in {"dir", "absent"}

C5_NonJsonNoSideEffect ==
    OutputFormat(argv) # "json" =>
        /\ fs = fsAtLaunch
        /\ result = <<>>
        /\ pc \notin {"validate", "model", "analyze", "emit", "except"}
        /\ ~WroteAnalysisResponse
        /\ (pc = "done" /\ ~argv.help) => exitCode # 0

\* The rejected invocation was otherwise a valid Mode A request whose
\* model path was absent: the placeholder would have been created.
C5_Witness ==
    pc = "done" /\ OutputFormat(argv) # "json" /\ ModeA /\ ModelAbsent
    /\ ModelCreatable /\ exitCode = 2 /\ fs = fsAtLaunch

\* The predictions mapping the spec mandates: exactly genre, mood, bpm and
\* key, in that order, every label from its enumeration, every confidence
\* in its range, and the bpm value in [60, 180] with one decimal place.
InRange(x, lo, hi) == lo <= x /\ x <= hi
MandatedPredictions(pr) ==
    /\ pr.keys = << "genre", "mood", "bpm", "key" >>
    /\ pr.genre.label \in { "rock", "pop", "jazz", "classical", "electronic", "hip_hop",
                            "country", "blues" }
    /\ pr.mood.label \in { "happy", "sad", "energetic", "calm", "aggressive" }
    /\ pr.key.label \in { "C", "C#", "D", "D#", "E", "F", "F#", "G", "G#", "A", "A#", "B" }
    /\ InRange(pr.genre.confidence, 600, 950)
    /\ InRange(pr.mood.confidence, 600, 950)
    /\ InRange(pr.bpm.confidence, 700, 950)
    /\ InRange(pr.key.confidence, 500, 900)
    /\ InRange(pr.bpm.value, 6000, 18000)
    /\ pr.bpm.value % 10 = 0

CheckNames ==
    << "Health Check", "API Info", "JSON Analysis", "File Upload", "Preprocessed Data" >>
CheckPaths ==
    << "/api/health", "/api/health/info", "/api/music/analyze",
       "/api/music/analyze/upload", "/api/music/analyze/preprocessed" >>
Names(rs) == [k \in 1..Len(rs) |-> rs[k].name]
Paths(qs) == [k \in 1..Len(qs) |-> qs[k].request.path]
IsPrefix(s, t) == Len(s) <= Len(t) /\ SubSeq(t, 1, Len(s)) = s

\* The checks run so far are the first ones of the battery, once each and in
\* order, and at report time all five have run.
C6_InOrderSoFar ==
    /\ Len(results) = Len(requests)
    /\ Len(results) <= 5
    /\ Names(results) = SubSeq(CheckNames, 1, Len(results))
    /\ Paths(requests) = SubSeq(CheckPaths, 1, Len(requests))
    /\ hpc = "end" => Len(results) = 5

\* C6: whatever the service answers, the five checks run exactly once each
\* in the fixed order, the outcome list has exactly those five entries at
\* report time, and no step ever changes or removes an outcome already
\* recorded.
C6_AllChecksRunInOrder ==
    /\ []C6_InOrderSoFar
    /\ [][IsPrefix(results, results') /\ IsPrefix(requests, requests')]_vars

\* The report was reached although the first check met a refused
\* connection and the fourth a 500, and the checks after each still passed.
C6_Witness ==
    /\ hpc = "end" /\ Len(results) = 5
    /\ requests[1].reply = ConnectionError /\ ~results[1].result
    /\ results[2].result /\ results[3].result
    /\ requests[4].reply.status = 500 /\ ~results[4].result
    /\ results[5].result

\* C7 as stated: whenever a response came back, the outcome is passed
\* exactly when its status code is 200, whatever its body.
C7_PassedIffStatus200 ==
    \A k \in 1..Len(results) :
        requests[k].reply.ok => (results[k].result <=> requests[k].reply.status = 200)

\* C7 amended: whenever a response came back, the outcome is passed exactly
\* when its status code is 200 and its body parses as JSON.
C7_PassedIffStatus200AndJsonBody ==
    \A k \in 1..Len(results) :
        requests[k].reply.ok =>
            (results[k].result <=>
                (requests[k].reply.status = 200 /\ requests[k].reply.json))

\* All five checks got a response: one passed, one got 200 with a body that
\* is not JSON, one got 201.
C7_Witness ==
    /\ Len(results) = 5
    /\ \A k \in 1..5 : requests[k].reply.ok
    /\ results[1].result
    /\ requests[3].reply = Response(200, FALSE) /\ ~results[3].result
    /\ requests[5].reply = Response(201, TRUE) /\ ~results[5].result

\* C8: whenever a check has returned, none of the scratch files it
\* synthesized is left, whatever its outcome.
C8_ScratchRemovedAfterEachCheck ==
    /\ idx > 3 => test_audio \notin scratch
    /\ idx > 5 => (features_path \notin scratch /\ spectrogram_path \notin scratch)

\* C9: at report time total is the number of outcomes, which is 5, passed
\* is the number of outcomes whose flag is true, and success is announced
\* exactly when the two are equal; five good answers give 5/5, and four good
\* answers followed by a 404 for the preprocessed endpoint give 4/5 with
\* the failing entry the one named for the preprocessed check.
Good(k) == requests[k].reply = Response(200, TRUE)
C9_Tally ==
    hpc = "end" =>
        /\ report.total = Len(results) /\ report.total = 5
        /\ report.passed = Cardinality({ k \in 1..Len(results) : results[k].result })
        /\ (report.printed = "All tests passed") <=> (report.passed = report.total)
        /\ (\A k \in 1..5 : Good(k)) => (report.passed = 5)
        /\ ((\A k \in 1..4 : Good(k)) /\ requests[5].reply.ok /\ requests[5].reply.status = 404)
              => /\ report.passed = 4
                 /\ { results[k].name : k \in { j \in 1..5 : ~results[j].result } }
                        = { "Preprocessed Data" }

\* The service lacks only the preprocessed endpoint: 4/5.
C9_Witness ==
    /\ hpc = "end"
    /\ \A k \in 1..4 : Good(k)
    /\ requests[5].reply = Response(404, TRUE)
    /\ report.passed = 4 /\ report.total = 5
    /\ report.printed = "Some tests failed"

====
